---- MODULE Spec2Model ----
(***************************************************************************)
(* Model of quadratic_fit<T> (src/quadratic_fit.h) and of the demo program *)
(* that drives it (src/unnamed/part_000).                                  *)
(*                                                                         *)
(* Arithmetic.  T is a floating-point type.  Every sample coordinate of    *)
(* the model is an integer, and every intermediate value of compute() on   *)
(* the bounded inputs below is an integer of magnitude far below 2^53, so  *)
(* each double operation of the code (+, -, *, std::pow with an integral   *)
(* exponent) is exact on these inputs and integer arithmetic reproduces it *)
(* bit for bit.  The one inexact operation, the final division, is kept    *)
(* as the pair numerator/denominator together with its IEEE-754 class.     *)
(* Rounding on inputs that are not exactly representable is outside the    *)
(* model.                                                                  *)
(*                                                                         *)
(* y-values of the demo quadratic (a = 1.23, b = -9.87, c = 0.01) are kept *)
(* in hundredths, so that they are integers: compute() is linear in y.     *)
(***************************************************************************)
EXTENDS Integers, Sequences, FiniteSets

\* ---- bounds ----------------------------------------------------------
\* fitted x-values range over 0..MaxX
MaxX == 2
\* longest collection in the fitting specification
MaxSamples == 4
\* the lifecycle specification stores the points (v, v + 1), v in 0..MaxLifeVal
MaxLifeVal == 1
\* longest collection in the lifecycle specification
MaxLifeSamples == 3
\* positions overwritten through operator[] between clears
MaxWrites == 1
\* largest capacity hint passed to the constructor
MaxReserve == 1

XVals == 0..MaxX
YVals == {0, 1}       \* fitted y-values
FitPoints == [x : XVals, y : YVals]
LifeVals == 0..MaxLifeVal
LifePoints == {[x |-> v, y |-> v + 1] : v \in LifeVals}
Indices == 0..(MaxLifeSamples + 1)

VARIABLES
  samples_,   \* std::vector<point> samples_
  reserved,   \* argument of the constructor's samples_.reserve(n); 0 for the default constructor
  ret,        \* outcome of the most recent call: its return value or the exception it threw
  added,      \* history: the points passed to add() since construction or the last clear()
  written     \* history: positions assigned through the reference returned by operator[]

vars == <<samples_, reserved, ret, added, written>>

\* struct point { T x, y; }
point(_x, _y) == [x |-> _x, y |-> _y]

\* ---- std::pow(base, j) for an integral exponent j >= 0; pow(0, 0) = 1 ----
RECURSIVE Pow(_, _)
Pow(base, j) == IF j = 0 THEN 1 ELSE base * Pow(base, j - 1)

\* ---- sj0(j): retval = 0; for (val : samples_) retval += pow(val.x, j) ----
RECURSIVE sj0_loop(_, _, _, _)
sj0_loop(s, j, i, retval) ==
  IF i > Len(s) THEN retval
  ELSE sj0_loop(s, j, i + 1, retval + Pow(s[i].x, j))

sj0(s, j) == sj0_loop(s, j, 1, 0)

\* ---- sj1(j): retval = 0; for (val : samples_) retval += pow(val.x, j) * val.y ----
RECURSIVE sj1_loop(_, _, _, _)
sj1_assign_loop(s, j, i, retval) ==
  IF Len(s) = 0 THEN 0 ELSE Pow(s[Len(s)].x, j) * s[Len(s)].y

sj1_loop(s, j, i, retval) ==
  IF i > Len(s) THEN retval
  ELSE sj1_loop(s, j, i + 1, retval + (Pow(s[i].x, j) * s[i].y))

sj1(s, j) == sj1_loop(s, j, 1, 0)

\* ---- the four expressions of compute() ----
Denominator_no2(s) ==
    sj0(s, 0) * sj0(s, 2) * sj0(s, 4)
  - Pow(sj0(s, 1), 2) * sj0(s, 4)
  - sj0(s, 0) * Pow(sj0(s, 3), 2)
  + sj0(s, 1) * sj0(s, 2) * sj0(s, 3)
  - Pow(sj0(s, 2), 3)

Denominator(s) ==
    sj0(s, 0) * sj0(s, 2) * sj0(s, 4)
  - Pow(sj0(s, 1), 2) * sj0(s, 4)
  - sj0(s, 0) * Pow(sj0(s, 3), 2)
  + 2 * sj0(s, 1) * sj0(s, 2) * sj0(s, 3)
  - Pow(sj0(s, 2), 3)

NumeratorA_swapped(s) ==
    sj1(s, 0) * sj0(s, 1) * sj0(s, 3)
  - sj1(s, 1) * sj0(s, 0) * sj0(s, 1)
  - sj1(s, 0) * Pow(sj0(s, 2), 2)
  + sj1(s, 1) * sj0(s, 1) * sj0(s, 2)
  + sj1(s, 2) * sj0(s, 0) * sj0(s, 2)
  - sj1(s, 2) * Pow(sj0(s, 1), 2)

NumeratorA(s) ==
    sj1(s, 0) * sj0(s, 1) * sj0(s, 3)
  - sj1(s, 1) * sj0(s, 0) * sj0(s, 3)
  - sj1(s, 0) * Pow(sj0(s, 2), 2)
  + sj1(s, 1) * sj0(s, 1) * sj0(s, 2)
  + sj1(s, 2) * sj0(s, 0) * sj0(s, 2)
  - sj1(s, 2) * Pow(sj0(s, 1), 2)

NumeratorB_sign(s) ==
    sj1(s, 1) * sj0(s, 0) * sj0(s, 4)
  - sj1(s, 0) * sj0(s, 1) * sj0(s, 4)
  + sj1(s, 0) * sj0(s, 2) * sj0(s, 3)
  - sj1(s, 2) * sj0(s, 0) * sj0(s, 3)
  - sj1(s, 1) * Pow(sj0(s, 2), 2)
  - sj1(s, 2) * sj0(s, 1) * sj0(s, 2)

NumeratorB(s) ==
    sj1(s, 1) * sj0(s, 0) * sj0(s, 4)
  - sj1(s, 0) * sj0(s, 1) * sj0(s, 4)
  + sj1(s, 0) * sj0(s, 2) * sj0(s, 3)
  - sj1(s, 2) * sj0(s, 0) * sj0(s, 3)
  - sj1(s, 1) * Pow(sj0(s, 2), 2)
  + sj1(s, 2) * sj0(s, 1) * sj0(s, 2)

NumeratorC_sq(s) ==
    sj1(s, 0) * sj0(s, 2) * sj0(s, 4)
  - sj1(s, 1) * sj0(s, 1) * sj0(s, 4)
  - sj1(s, 0) * Pow(sj0(s, 3), 2)
  + sj1(s, 1) * sj0(s, 2) * sj0(s, 3)
  + sj1(s, 2) * sj0(s, 1) * sj0(s, 3)
  - sj1(s, 2) * sj0(s, 2)

NumeratorC(s) ==
    sj1(s, 0) * sj0(s, 2) * sj0(s, 4)
  - sj1(s, 1) * sj0(s, 1) * sj0(s, 4)
  - sj1(s, 0) * Pow(sj0(s, 3), 2)
  + sj1(s, 1) * sj0(s, 2) * sj0(s, 3)
  + sj1(s, 2) * sj0(s, 1) * sj0(s, 3)
  - sj1(s, 2) * Pow(sj0(s, 2), 2)

\* ---- T operator/(T num, T den): IEEE-754 division of two exact values.
\* A zero denominator of compute() is +0 (it is the difference of equal
\* non-negative values), so the sign of an infinity is the numerator's.
Divide(num, den) ==
  [cls |-> IF den # 0 THEN "finite"
           ELSE IF num = 0 THEN "nan"
           ELSE IF num > 0 THEN "+inf" ELSE "-inf",
   num |-> num, den |-> den]

\* ---- std::array<T, 3> compute() const ----
compute(s) ==
  [kind |-> "coeffs",
   a |-> Divide(NumeratorA(s), Denominator(s)),
   b |-> Divide(NumeratorB(s), Denominator(s)),
   c |-> Divide(NumeratorC(s), Denominator(s))]

\* ---- std::vector<point>::at(idx) ----
at_gt(s, idx) ==
  IF idx > Len(s) THEN [kind |-> "out_of_range", idx |-> idx]
  ELSE IF idx = Len(s) THEN [kind |-> "point", idx |-> idx, val |-> point(0, 0)]
  ELSE [kind |-> "point", idx |-> idx, val |-> s[idx + 1]]

at(s, idx) ==
  IF idx >= Len(s) THEN [kind |-> "out_of_range", idx |-> idx]
  ELSE [kind |-> "point", idx |-> idx, val |-> s[idx + 1]]

\* ---- double qfunc(double x), in hundredths ----
qfunc(x) == 123 * Pow(x, 2) + (-987) * x + 1

\* x-values the demo program's generator can be observed at: dis(-1, 1)
DemoX == {-1, 0, 1}

Void == [kind |-> "void"]

\* ======================= operations ===================================

\* quadratic_fit() and explicit quadratic_fit(std::size_t n)
Init ==
  /\ samples_ = << >>
  /\ reserved \in 0..MaxReserve
  /\ ret = Void
  /\ added = << >>
  /\ written = {}

\* quadratic_fit(): the default constructor only
InitFit ==
  /\ samples_ = << >>
  /\ reserved = 0
  /\ ret = Void
  /\ added = << >>
  /\ written = {}

\* void add(T x, T y)
add_front(x, y) ==
  /\ samples_' = <<point(x, y)>> \o samples_
  /\ added' = Append(added, point(x, y))
  /\ ret' = Void
  /\ UNCHANGED <<reserved, written>>

add(x, y) ==
  /\ samples_' = Append(samples_, point(x, y))
  /\ added' = Append(added, point(x, y))
  /\ ret' = Void
  /\ UNCHANGED <<reserved, written>>

\* void clear()
clear_keep ==
  /\ samples_' = samples_
  /\ added' = << >>
  /\ written' = {}
  /\ ret' = Void
  /\ UNCHANGED reserved

clear ==
  /\ samples_' = << >>
  /\ added' = << >>
  /\ written' = {}
  /\ ret' = Void
  /\ UNCHANGED reserved

\* auto c = fit.compute();
Compute_pop ==
  /\ ret' = compute(samples_)
  /\ samples_' = IF Len(samples_) = 0 THEN samples_ ELSE Tail(samples_)
  /\ UNCHANGED <<reserved, added, written>>

Compute ==
  /\ ret' = compute(samples_)
  /\ UNCHANGED <<samples_, reserved, added, written>>

\* fit[idx] read through either overload of operator[]
At(idx) ==
  /\ ret' = at(samples_, idx)
  /\ UNCHANGED <<samples_, reserved, added, written>>

\* fit[idx] = point(x, y): the non-const operator[] hands out point&, and
\* point's members are public and non-const, so the caller stores through it.
AtAssign(idx, x, y) ==
  /\ LET r == at(samples_, idx) IN
       IF r.kind = "out_of_range"
       THEN /\ ret' = r
            /\ UNCHANGED <<samples_, written>>
       ELSE /\ Cardinality(written \cup {idx + 1}) <= MaxWrites
            /\ samples_' = [samples_ EXCEPT ![idx + 1] = point(x, y)]
            /\ written' = written \cup {idx + 1}
            /\ ret' = [kind |-> "point", idx |-> idx, val |-> point(x, y)]
  /\ UNCHANGED <<reserved, added>>

\* ---- lifecycle specification: every public operation, small coordinates ----
LifeAdd == \E p \in LifePoints : Len(samples_) < MaxLifeSamples /\ add(p.x, p.y)
LifeAt == \E idx \in Indices : At(idx)
LifeAssign == \E idx \in Indices, p \in LifePoints : AtAssign(idx, p.x, p.y)

Next == LifeAdd \/ clear \/ Compute \/ LifeAt \/ LifeAssign

Spec == Init /\ [][Next]_vars

\* ---- fitting specification: add / clear / compute.  Two callers fill a
\* fitter: one with points of the fitting grid, and the demo program, whose
\* loop body is  x = dis(gen); y = qfunc(x); qfit.add(x, y)  and which
\* therefore stores samples of qfunc only. ----
FitAdd ==
  /\ Len(samples_) < MaxSamples
  /\ \A i \in 1..Len(samples_) : samples_[i] \in FitPoints
  /\ \E p \in FitPoints : add(p.x, p.y)

DemoAdd ==
  /\ Len(samples_) < MaxSamples
  /\ \A i \in 1..Len(samples_) : samples_[i].y = qfunc(samples_[i].x)
  /\ \E x \in DemoX : add(x, qfunc(x))

NextFit == FitAdd \/ DemoAdd \/ clear \/ Compute

SpecFit == InitFit /\ [][NextFit]_vars

\* ======================= definitions used by the properties ============

\* sum of x_i^j over the collection, by structural recursion
RECURSIVE S0(_, _)
S0(s, j) == IF s = << >> THEN 0 ELSE Pow(Head(s).x, j) + S0(Tail(s), j)

\* sum of x_i^j * y_i over the collection, by structural recursion
RECURSIVE S1(_, _)
S1(s, j) == IF s = << >> THEN 0 ELSE Pow(Head(s).x, j) * Head(s).y + S1(Tail(s), j)

DistinctX(s) == Cardinality({s[i].x : i \in 1..Len(s)})

Collinear(s) ==
  \A i, j, k \in 1..Len(s) :
    (s[j].x - s[i].x) * (s[k].y - s[i].y) = (s[k].x - s[i].x) * (s[j].y - s[i].y)

OnQuadratic(s, A, B, C) ==
  \A i \in 1..Len(s) : s[i].y = A * s[i].x * s[i].x + B * s[i].x + C

MaxCoef == 1
Coefs == (-MaxCoef)..MaxCoef
Quadratics == (Coefs \X Coefs \X Coefs) \cup {<<123, -987, 1>>}

\* the three samples of the concrete scenario, y in hundredths
DemoThree == <<point(-1, 1111), point(0, 1), point(1, -863)>>

PointLeq(p, q) == p.x < q.x \/ (p.x = q.x /\ p.y <= q.y)

RECURSIVE Insert(_, _)
Insert(p, s) ==
  IF s = << >> THEN <<p>>
  ELSE IF PointLeq(p, Head(s)) THEN <<p>> \o s
  ELSE <<Head(s)>> \o Insert(p, Tail(s))

\* the same multiset of points in ascending order
RECURSIVE SortPoints(_)
SortPoints(s) == IF s = << >> THEN << >> ELSE Insert(Head(s), SortPoints(Tail(s)))

Computed == ret.kind = "coeffs"
NonFinite == {"nan", "+inf", "-inf"}

\* ======================= properties ====================================

\* C1: whenever compute() has returned and its denominator D is non-zero, the
\* returned numerators Na, Nb, Nc over the common denominator D satisfy the
\* three normal equations of quadratic regression over the stored points.
C1_NormalEquations ==
  (Computed /\ ret.a.den # 0) =>
    LET D == ret.a.den
        Na == ret.a.num
        Nb == ret.b.num
        Nc == ret.c.num
        s == samples_
    IN /\ ret.b.den = D /\ ret.c.den = D
       /\ Na * S0(s, 4) + Nb * S0(s, 3) + Nc * S0(s, 2) = S1(s, 2) * D
       /\ Na * S0(s, 3) + Nb * S0(s, 2) + Nc * S0(s, 1) = S1(s, 1) * D
       /\ Na * S0(s, 2) + Nb * S0(s, 1) + Nc * S0(s, 0) = S1(s, 0) * D

\* compute() has run on more points than unknowns, with a genuine fit
C1_Witness ==
  /\ Computed /\ ret.a.den # 0
  /\ Len(samples_) > 3
  /\ ret.a.num # 0 /\ ret.b.num # 0
  /\ ~ (\E q \in Quadratics : OnQuadratic(samples_, q[1], q[2], q[3]))

\* C2: after adding exactly 3 non-collinear points with pairwise distinct x,
\* compute() returns a quadratic through all 3 points (D # 0 and
\* Na*x^2 + Nb*x + Nc = y*D); the points (-1, 11.11), (0, 0.01), (1, -8.63)
\* give (1.23, -9.87, 0.01).
C2_ThreePointsInterpolated ==
  (Computed /\ Len(samples_) = 3 /\ DistinctX(samples_) = 3 /\ ~Collinear(samples_)) =>
    LET D == ret.a.den IN
      /\ D # 0 /\ ret.b.den = D /\ ret.c.den = D
      /\ \A i \in 1..3 :
           ret.a.num * samples_[i].x * samples_[i].x + ret.b.num * samples_[i].x + ret.c.num
             = samples_[i].y * D
      /\ samples_ = DemoThree =>
           (ret.a.num = 123 * D /\ ret.b.num = (-987) * D /\ ret.c.num = 1 * D)

C2_Witness == Computed /\ samples_ = DemoThree

\* C3 as stated: for any n > 3 points lying exactly on y = A*x^2 + B*x + C,
\* compute() returns (A, B, C): D # 0, Na = A*D, Nb = B*D, Nc = C*D.
C3_AnyPointsOnQuadratic ==
  (Computed /\ Len(samples_) > 3) =>
    \A q \in Quadratics :
      OnQuadratic(samples_, q[1], q[2], q[3]) =>
        /\ ret.a.den # 0
        /\ ret.a.num = q[1] * ret.a.den
        /\ ret.b.num = q[2] * ret.b.den
        /\ ret.c.num = q[3] * ret.c.den

\* C3 amended: for any n > 3 points with at least 3 distinct x-values lying
\* exactly on y = A*x^2 + B*x + C, compute() returns (A, B, C).
C3_RecoversQuadratic ==
  (Computed /\ Len(samples_) > 3 /\ DistinctX(samples_) >= 3) =>
    \A q \in Quadratics :
      OnQuadratic(samples_, q[1], q[2], q[3]) =>
        /\ ret.a.den # 0 /\ ret.b.den = ret.a.den /\ ret.c.den = ret.a.den
        /\ ret.a.num = q[1] * ret.a.den
        /\ ret.b.num = q[2] * ret.b.den
        /\ ret.c.num = q[3] * ret.c.den

C3_Witness ==
  /\ Computed /\ Len(samples_) > 3 /\ DistinctX(samples_) >= 3
  /\ \E q \in Quadratics : q[1] # 0 /\ q[2] # 0 /\ q[3] # 0 /\ OnQuadratic(samples_, q[1], q[2], q[3])

C5_AtReturnsAdded ==
  (ret.kind \in {"point", "out_of_range"}) =>
    /\ (ret.kind = "out_of_range") <=> (ret.idx >= Len(samples_))
    /\ (ret.kind = "point") => (ret.idx < Len(added) /\ ret.val = added[ret.idx + 1])

\* C5 amended: operator[] throws out_of_range exactly when idx >= size(), and
\* otherwise returns the point currently stored at that position, which is the
\* point add() put there unless it has been assigned through operator[] since.
C5_AtReturnsStored ==
  (ret.kind \in {"point", "out_of_range"}) =>
    /\ (ret.kind = "out_of_range") <=> (ret.idx >= Len(samples_))
    /\ (ret.kind = "point") =>
         /\ ret.val = samples_[ret.idx + 1]
         /\ (ret.idx + 1 \notin written) => ret.val = added[ret.idx + 1]

C5_Witness ==
  /\ ret.kind = "point" /\ ret.idx = Len(samples_) - 1 /\ Len(samples_) > 1
  /\ ret.idx + 1 \notin written /\ written # {}

\* C6: size() equals the number of add() calls since construction or the
\* last clear().
C6_SizeCountsAdds == Len(samples_) = Len(added)

C6_Witness == Len(samples_) = MaxLifeSamples /\ Computed /\ reserved > 0 /\ written # {}

C8_PointsImmutable ==
  /\ Len(samples_) = Len(added)
  /\ \A i \in 1..Len(samples_) : samples_[i] = added[i]

\* C8 amended: the point stored at position i equals the pair passed to the
\* i-th add() unless position i has been assigned through the reference that
\* the non-const operator[] returns; add, read access, compute and clear never
\* change a stored point.
C8_OnlyAssignmentChangesPoints ==
  /\ Len(samples_) = Len(added)
  /\ \A i \in 1..Len(samples_) : i \notin written => samples_[i] = added[i]

C8_Witness ==
  /\ Len(samples_) >= 2
  /\ \E i \in written : samples_[i] # added[i]
  /\ \E i \in 1..Len(samples_) : i \notin written

\* C9: the result of compute() does not depend on insertion order: it equals
\* the result for the same multiset of points added in ascending order, so any
\* two orders of one multiset give the same numerators and denominator.
C9_OrderIndependent ==
  Computed => ret = compute(SortPoints(samples_))

C9_Witness ==
  /\ Computed /\ Len(samples_) >= 3 /\ ret.a.den # 0
  /\ samples_ # SortPoints(samples_)

\* C10 as stated: whenever all stored points are collinear, the denominator
\* compute() divides by is 0.
C10_CollinearZeroDenominator ==
  (Computed /\ Collinear(samples_)) => ret.a.den = 0

\* C10 amended: whenever all stored points are collinear, the denominator is 0
\* exactly when they have fewer than 3 distinct x-values; with 3 or more
\* distinct x-values it is non-zero and the fitted a is 0.
C10_CollinearDenominator ==
  (Computed /\ Collinear(samples_)) =>
    /\ (ret.a.den = 0) <=> (DistinctX(samples_) < 3)
    /\ (ret.a.den # 0) => ret.a.num = 0

C10_Witness ==
  /\ Computed /\ Collinear(samples_) /\ DistinctX(samples_) >= 3
  /\ ret.c.num # 0

====
